---- MODULE Spec2Model ----
(***************************************************************************)
(* pr-fixer: the command-line action of src/index.ts and the URL parser it *)
(* calls.  Strings are sequences of one-character strings, so that the     *)
(* parser's regular expression is matched character by character.          *)
(***************************************************************************)
EXTENDS Integers, Sequences, FiniteSets, TLC

VARIABLES
    url,        \* the <pr_url> argument
    git,        \* the repository: which ways of checking out the branch work
    attempts,   \* the ways checkoutPRBranch has tried, in order
    dryRun,     \* options.dryRun
    pr,         \* the pull request's comments on the hosting service
    pc,         \* position of the action callback
    parsed,     \* the value returned (or the error thrown) by parsePRUrl
    branch,     \* branch checked out in the working directory
    head,       \* head commit of the working directory
    checkouts,  \* calls of checkoutPRBranch so far
    fetches,    \* calls of fetchPRComments so far
    comments,   \* the array returned by fetchPRComments
    idx,        \* position of the for..of loop in comments (1-based)
    displayed,  \* ids of the comments printed so far
    invoked,    \* ids of the comments handed to processCommentWithClaude
    inflight,   \* positions whose agent invocation has not returned yet
    status,     \* per position: Pending, Invoking, Committed, Skipped, Failed
    outcomes,   \* the CommentProcessResult values returned so far
    doneMsg,    \* the "Done!" line was printed
    exitCode,   \* process exit code once pc = "exited"
    directory,  \* options.directory ("" when -d is not given)
    dirty,      \* the working directory has uncommitted changes
    pushes,     \* pushes to the remote so far
    error,      \* name of the error the catch block printed
    checkoutDir, \* directory checkoutPRBranch was called with
    fetchLog,   \* per category, how the last fetch of it ended
    agentDirs,  \* per invocation, the directory the agent ran in
    agentLog    \* per settled invocation: marker, head before and after

vars == <<url, git, attempts, dryRun, pr, pc, parsed, branch, head, checkouts, fetches,
          comments, idx, displayed, invoked, inflight, status, outcomes,
          doneMsg, exitCode, directory, dirty, pushes, error, checkoutDir,
          fetchLog, agentDirs, agentLog>>

-----------------------------------------------------------------------------
(* Bounds *)

\* longest PR-number text the inputs contain
MaxDigits == 2

\* most comments of one category on the pull request
MaxPerKind == 1

\* most comments of one category when the fetch alone is checked
MaxFetchedPerKind == 2

-----------------------------------------------------------------------------
(* Character strings *)

HTTP == <<"h", "t", "t", "p">>
HTTPS == <<"h", "t", "t", "p", "s">>
FTP == <<"f", "t", "p">>
COLONSLASHES == <<":", "/", "/">>
WWW == <<"w", "w", "w", ".">>
GITHUBCOM == <<"g", "i", "t", "h", "u", "b", ".", "c", "o", "m">>
EXAMPLECOM == <<"e", "x", "a", "m", "p", "l", "e", ".", "c", "o", "m">>
SLASH == <<"/">>
PULL == <<"p", "u", "l", "l">>
PULLS == <<"p", "u", "l", "l", "s">>
EMPTY == <<>>

DigitChars == {"0", "1", "2", "3", "4", "5", "6", "7", "8", "9"}

HasPrefix(s, lit) ==
    /\ Len(s) >= Len(lit)
    /\ SubSeq(s, 1, Len(lit)) = lit

Drop(s, n) == SubSeq(s, n + 1, Len(s))

\* numeric value of one decimal digit character
DigitValue(c) ==
    CASE c = "0" -> 0 [] c = "1" -> 1 [] c = "2" -> 2 [] c = "3" -> 3
      [] c = "4" -> 4 [] c = "5" -> 5 [] c = "6" -> 6 [] c = "7" -> 7
      [] c = "8" -> 8 [] c = "9" -> 9

DigitChar(d) ==
    CASE d = 0 -> "0" [] d = 1 -> "1" [] d = 2 -> "2" [] d = 3 -> "3"
      [] d = 4 -> "4" [] d = 5 -> "5" [] d = 6 -> "6" [] d = 7 -> "7"
      [] d = 8 -> "8" [] d = 9 -> "9"

-----------------------------------------------------------------------------
(* parsePRUrl: the regular expression
     ^https?:\/\/(?:www\.)?github\.com\/([^/]+)\/([^/]+)\/pull\/(\d+)\/?$
   matched left to right.  A match state is the unread rest of the input. *)

NoMatch == [ok |-> FALSE, rest |-> EMPTY, groups |-> <<>>]

\* a literal piece of the pattern
Lit(m, lit) ==
    IF m.ok /\ HasPrefix(m.rest, lit)
    THEN [m EXCEPT !.rest = Drop(m.rest, Len(lit))]
    ELSE NoMatch

\* an optional literal piece: (?:lit)?
Opt(m, lit) ==
    IF m.ok /\ HasPrefix(m.rest, lit)
    THEN [m EXCEPT !.rest = Drop(m.rest, Len(lit))]
    ELSE m

\* the two character classes of the pattern: [^/] and \d
NotSlash == "[^/]"
IsDigit == "\\d"

InClass(c, class) ==
    IF class = IsDigit THEN c \in DigitChars ELSE c /= "/"

\* length of the longest prefix of s made of characters of the class
RunLength(s, class) ==
    CHOOSE n \in 0..Len(s) :
        /\ \A i \in 1..n : InClass(s[i], class)
        /\ (n < Len(s) => ~InClass(s[n + 1], class))

\* a capturing group over one or more characters of a class: ([class]+)
Capture(m, class) ==
    IF ~m.ok THEN NoMatch
    ELSE LET n == RunLength(m.rest, class)
         IN  IF n = 0 THEN NoMatch
             ELSE [ok |-> TRUE,
                   rest |-> Drop(m.rest, n),
                   groups |-> Append(m.groups, SubSeq(m.rest, 1, n))]

\* the $ anchor
AtEnd(m) == IF m.ok /\ m.rest = EMPTY THEN m ELSE NoMatch

\* the pattern without its $ anchor
pattern_Unanchored(u) ==
    LET m0 == [ok |-> TRUE, rest |-> u, groups |-> <<>>]
        m1 == Lit(Opt(Lit(m0, HTTP), <<"s">>), COLONSLASHES)
        m2 == Lit(Lit(Opt(m1, WWW), GITHUBCOM), SLASH)
        m3 == Lit(Capture(m2, NotSlash), SLASH)
        m4 == Lit(Capture(m3, NotSlash), SLASH)
        m5 == Lit(Lit(m4, PULL), SLASH)
        m6 == Capture(m5, IsDigit)
    IN  Opt(m6, SLASH)

\* url.match(pattern)
pattern(u) ==
    LET m0 == [ok |-> TRUE, rest |-> u, groups |-> <<>>]
        m1 == Lit(Opt(Lit(m0, HTTP), <<"s">>), COLONSLASHES)
        m2 == Lit(Lit(Opt(m1, WWW), GITHUBCOM), SLASH)
        m3 == Lit(Capture(m2, NotSlash), SLASH)
        m4 == Lit(Capture(m3, NotSlash), SLASH)
        m5 == Lit(Lit(m4, PULL), SLASH)
        m6 == Capture(m5, IsDigit)
    IN  AtEnd(Opt(m6, SLASH))

\* parseInt(text, 10): the value of the leading decimal digits; NaN when the
\* text does not start with a digit
NaN == -1

RECURSIVE DecimalValue(_)
DecimalValue(s) ==
    IF s = EMPTY THEN 0
    ELSE 10 * DecimalValue(SubSeq(s, 1, Len(s) - 1)) + DigitValue(s[Len(s)])

parseInt(s) ==
    LET n == RunLength(s, IsDigit)
    IN  IF n = 0 THEN NaN ELSE DecimalValue(SubSeq(s, 1, n))

isNaN(x) == x = NaN

InvalidUrl == [ok |-> FALSE, error |-> "Invalid GitHub PR URL"]
InvalidNumber == [ok |-> FALSE, error |-> "Invalid PR number in URL"]

\* parsePRUrl with the two path captures taken in the wrong order
parsePRUrl_SwappedGroups(u) ==
    LET match == pattern(u)
    IN  IF ~match.ok THEN InvalidUrl
        ELSE LET owner == match.groups[2]
                 repo == match.groups[1]
                 prNumber == parseInt(match.groups[3])
             IN  IF isNaN(prNumber) \/ prNumber <= 0 THEN InvalidNumber
                 ELSE [ok |-> TRUE, owner |-> owner, repo |-> repo,
                       prNumber |-> prNumber]

\* parsePRUrl without the check of the PR number
parsePRUrl_NoNumberCheck(u) ==
    LET match == pattern(u)
    IN  IF ~match.ok THEN InvalidUrl
        ELSE [ok |-> TRUE, owner |-> match.groups[1], repo |-> match.groups[2],
              prNumber |-> parseInt(match.groups[3])]

parsePRUrl(u) ==
    LET match == pattern(u)
    IN  IF ~match.ok THEN InvalidUrl
        ELSE LET owner == match.groups[1]
                 repo == match.groups[2]
                 prNumber == parseInt(match.groups[3])
             IN  IF isNaN(prNumber) \/ prNumber <= 0 THEN InvalidNumber
                 ELSE [ok |-> TRUE, owner |-> owner, repo |-> repo,
                       prNumber |-> prNumber]

-----------------------------------------------------------------------------
(* Inputs *)

\* every sequence over S of length lo..hi
SeqsOf(S, lo, hi) == UNION {[1..n -> S] : n \in lo..hi}

\* s1 \o "/" \o s2 \o "/" ... for a sequence of path segments
RECURSIVE JoinPath(_)
JoinPath(segs) ==
    IF segs = <<>> THEN EMPTY
    ELSE SLASH \o Head(segs) \o JoinPath(Tail(segs))

InputDigits == {"0", "1", "7"}
NumberTexts ==
    SeqsOf(InputDigits, 1, MaxDigits) \cup {EMPTY, <<"x">>, <<"1", "x">>, <<"-", "1">>}
Schemes == {HTTP, HTTPS, FTP, <<" ">> \o HTTPS}
Hosts == {GITHUBCOM, EXAMPLECOM}
Owners == {<<"o">>, EMPTY}
Repos == {<<"r">>, PULL}
Keywords == {PULL, PULLS}
Tails == {EMPTY, SLASH, <<"/", "f">>, <<"/", "/">>}

\* the path of a PR URL, and paths with the repository segment missing
Paths ==
    {JoinPath(<<o, r, k, n>>) \o t :
        o \in Owners, r \in Repos, k \in Keywords, n \in NumberTexts, t \in Tails}
    \cup {JoinPath(<<o, k, n>>) \o t :
        o \in Owners, k \in Keywords, n \in NumberTexts, t \in Tails}

\* the URLs the parser is tried on
ParseUrls ==
    {s \o COLONSLASHES \o w \o h \o p :
        s \in Schemes, w \in {EMPTY, WWW}, h \in Hosts, p \in Paths}

OWNER == <<"o", "w", "n", "e", "r">>
REPO == <<"r", "e", "p", "o">>

\* "https://example.com/owner/repo/pull/12"
ExampleComUrl ==
    HTTPS \o COLONSLASHES \o EXAMPLECOM \o JoinPath(<<OWNER, REPO, PULL, <<"1", "2">>>>)

\* the URLs a whole run is tried on
RunUrls ==
    { HTTPS \o COLONSLASHES \o GITHUBCOM \o JoinPath(<<OWNER, REPO, PULL, <<"1", "2">>>>),
      HTTP \o COLONSLASHES \o WWW \o GITHUBCOM
          \o JoinPath(<<OWNER, REPO, PULL, <<"0", "7">>>>) \o SLASH,
      HTTPS \o COLONSLASHES \o GITHUBCOM \o JoinPath(<<OWNER, REPO, PULL, <<"0">>>>),
      ExampleComUrl }

\* a comment on the hosting service; ids are unique over the pull request
Comment(k, i, b) == [id |-> 10 * k + i, kind |-> k, body |-> b]

Discussion == 1
ReviewSummary == 2
Inline == 3

Kinds == {Discussion, ReviewSummary, Inline}

\* the pull requests with up to n comments of each category, listed in the
\* order the hosting service returns them; a review summary may have an
\* empty body
SnapshotsUpTo(n) ==
    {[discussion |-> [i \in 1..nd |-> Comment(Discussion, i, "text")],
      reviews |-> [i \in 1..Len(rb) |-> Comment(ReviewSummary, i, rb[i])],
      inline |-> [i \in 1..ni |-> Comment(Inline, i, "text")]] :
        nd \in 0..n,
        rb \in SeqsOf({"", "text"}, 0, n),
        ni \in 0..n}

\* the pull requests a run is tried on
Snapshots == SnapshotsUpTo(MaxPerKind)

\* the -d option: not given, or a repository elsewhere
Directories == {"", "/path/to/repo"}

\* process.cwd()
processCwd == "/cwd"

-----------------------------------------------------------------------------
(* The external operations the action awaits.  Their bodies in the source
   are stubs that always throw; the returning outcomes follow the design. *)

\* the ways of checking out the branch, in the order of preference: plain
\* checkout of a local branch, checkout tracking the remote branch, fetch
\* followed by checkout
Plain == "checkout"
Track == "checkout --track"
FetchThenCheckout == "fetch, checkout"

Strategies == <<Plain, Track, FetchThenCheckout>>

\* the repositories: for each way, whether it succeeds
GitRepos == [{Plain, Track, FetchThenCheckout} -> BOOLEAN]

\* the repositories a run is tried on: the branch is local, the branch has
\* to be fetched, no way works
RunGits ==
    {g \in GitRepos : g[Track] = g[Plain] /\ (g[Plain] => g[FetchThenCheckout])}

\* the ways are tried in the given order up to the first that succeeds
tryStrategies(order, g) ==
    LET working == {k \in 1..Len(order) : g[order[k]]}
    IN  IF working = {}
        THEN [outcome |-> "CheckoutError", attempts |-> order]
        ELSE LET first == CHOOSE k \in working : \A j \in working : k <= j
             IN  [outcome |-> "ok", attempts |-> SubSeq(order, 1, first)]

\* checkoutPRBranch fetching before it has tried what is there
checkoutPRBranch_FetchFirst(isDirty, g) ==
    IF isDirty
    THEN [outcome |-> "DirtyWorkingDirectoryError", attempts |-> <<>>]
    ELSE tryStrategies(<<FetchThenCheckout, Plain, Track>>, g)

\* checkoutPRBranch(prNumber, repoDir): how the call ends and what it tried
checkoutPRBranch(isDirty, g) ==
    IF isDirty
    THEN [outcome |-> "DirtyWorkingDirectoryError", attempts |-> <<>>]
    ELSE tryStrategies(Strategies, g)

\* checkoutPRBranch(prNumber, repoDir) either returns or throws; it refuses
\* a working directory with uncommitted changes
CheckoutOutcomes(isDirty) ==
    IF isDirty THEN {"DirtyWorkingDirectoryError"} ELSE {"ok", "CheckoutError"}

\* how the retrieval of each comment category can end
FetchOutcomes == [Kinds -> {"ok", "fail"}]

HasBody(c) == c.body /= ""

\* fetchPRComments returning the categories in another order
fetchPRComments_InlineFirst(p) ==
    p.inline \o p.discussion \o SelectSeq(p.reviews, HasBody)

\* fetchPRComments without the filter on review summaries
fetchPRComments_NoFilter(p) ==
    p.discussion \o p.reviews \o p.inline

\* the array fetchPRComments returns: discussion comments, then review
\* summaries with a body, then inline comments
fetchPRComments(p) ==
    p.discussion \o SelectSeq(p.reviews, HasBody) \o p.inline

\* fetchPRComments(owner, repo, prNumber) throws when the retrieval of any
\* category failed
fetchThrows(outcome) == \E k \in Kinds : outcome[k] = "fail"

\* the directory an agent invocation runs in: processCommentWithClaude is
\* given the comment only, so what it starts inherits the process's own
AgentDirectory == processCwd

\* what one agent invocation can do: the marker its output ends with (none,
\* or an abnormal exit), and whether it created a commit
Markers == {"CHANGES_MADE", "NO_CHANGES_NEEDED", "none", "crash"}
AgentBehaviours == [marker : Markers, committed : BOOLEAN]

Threw(name) == [threw |-> TRUE, error |-> name]

\* processCommentWithClaude reporting whatever the marker says, without
\* looking for the commit
processCommentWithClaude_TrustsMarker(comment, marker, headBefore, headAfter) ==
    CASE marker = "crash" -> Threw("AgentError")
      [] marker = "none" -> Threw("NoMarkerError")
      [] marker = "CHANGES_MADE" ->
            IF headAfter /= headBefore
            THEN [threw |-> FALSE, commentId |-> comment.id, fixed |-> TRUE,
                  commitSha |-> headAfter, message |-> "changes made"]
            ELSE [threw |-> FALSE, commentId |-> comment.id, fixed |-> TRUE,
                  message |-> "changes made"]
      [] marker = "NO_CHANGES_NEEDED" ->
            [threw |-> FALSE, commentId |-> comment.id, fixed |-> FALSE,
             message |-> "no changes needed"]

\* processCommentWithClaude taking the head as the commit id without
\* comparing it with the head before
processCommentWithClaude_NoCommitCheck(comment, marker, headBefore, headAfter) ==
    CASE marker = "crash" -> Threw("AgentError")
      [] marker = "none" -> Threw("NoMarkerError")
      [] marker = "CHANGES_MADE" ->
            [threw |-> FALSE, commentId |-> comment.id, fixed |-> TRUE,
             commitSha |-> headAfter, message |-> "changes made"]
      [] marker = "NO_CHANGES_NEEDED" ->
            IF headAfter = headBefore
            THEN [threw |-> FALSE, commentId |-> comment.id, fixed |-> FALSE,
                  message |-> "no changes needed"]
            ELSE Threw("UnexpectedCommitError")

\* processCommentWithClaude reporting no changes on the marker alone, without
\* comparing the head after with the head before
processCommentWithClaude_IgnoresStrayCommit(comment, marker, headBefore, headAfter) ==
    CASE marker = "crash" -> Threw("AgentError")
      [] marker = "none" -> Threw("NoMarkerError")
      [] marker = "CHANGES_MADE" ->
            IF headAfter /= headBefore
            THEN [threw |-> FALSE, commentId |-> comment.id, fixed |-> TRUE,
                  commitSha |-> headAfter, message |-> "changes made"]
            ELSE Threw("CommitNotFoundError")
      [] marker = "NO_CHANGES_NEEDED" ->
            [threw |-> FALSE, commentId |-> comment.id, fixed |-> FALSE,
             message |-> "no changes needed"]

\* processCommentWithClaude(comment): the CommentProcessResult, or the error
\* thrown, given what the agent did and the head before and after it
processCommentWithClaude(comment, marker, headBefore, headAfter) ==
    CASE marker = "crash" -> Threw("AgentError")
      [] marker = "none" -> Threw("NoMarkerError")
      [] marker = "CHANGES_MADE" ->
            IF headAfter /= headBefore
            THEN [threw |-> FALSE, commentId |-> comment.id, fixed |-> TRUE,
                  commitSha |-> headAfter, message |-> "changes made"]
            ELSE Threw("CommitNotFoundError")
      [] marker = "NO_CHANGES_NEEDED" ->
            IF headAfter = headBefore
            THEN [threw |-> FALSE, commentId |-> comment.id, fixed |-> FALSE,
                  message |-> "no changes needed"]
            ELSE Threw("UnexpectedCommitError")

-----------------------------------------------------------------------------
(* The action callback of src/index.ts *)

Terminal == {"Committed", "Skipped", "Failed"}

\* const repoDir = options.directory || process.cwd()
repoDir == IF directory /= "" THEN directory ELSE processCwd

\* the catch block printing the error and returning without process.exit(1)
CatchExit_LogsOnly(name) ==
    /\ pc' = "exited"
    /\ exitCode' = 0
    /\ error' = name

\* catch (error) { console.error(...); process.exit(1) }
CatchExit(name) ==
    /\ pc' = "exited"
    /\ exitCode' = 1
    /\ error' = name

\* no error is caught
NoCatch == UNCHANGED <<exitCode, error>>

RunInit ==
    /\ dryRun \in BOOLEAN
    /\ pr \in Snapshots
    /\ pc = "start"
    /\ parsed = [ok |-> FALSE, error |-> "not parsed"]
    /\ branch = "original"
    /\ head = 0
    /\ checkouts = 0
    /\ fetches = 0
    /\ comments = <<>>
    /\ idx = 0
    /\ displayed = <<>>
    /\ invoked = <<>>
    /\ inflight = {}
    /\ status = <<>>
    /\ outcomes = <<>>
    /\ doneMsg = FALSE
    /\ exitCode = 0
    /\ pushes = 0
    /\ error = ""
    /\ checkoutDir = ""
    /\ attempts = <<>>
    /\ fetchLog = <<>>
    /\ agentDirs = <<>>
    /\ agentLog = <<>>

Init ==
    /\ url \in RunUrls
    /\ git \in RunGits
    /\ directory \in Directories
    /\ dirty \in BOOLEAN
    /\ RunInit

\* ParseStep with the parse error swallowed: the run goes on to the checkout
ParseStep_SwallowsError ==
    /\ pc = "start"
    /\ parsed' = parsePRUrl(url)
    /\ pc' = "checkout"
    /\ UNCHANGED <<url, git, attempts, dryRun, pr, branch, head, checkouts, fetches, comments,
                   idx, displayed, invoked, inflight, status, outcomes, doneMsg,
                   exitCode, directory, dirty, pushes, error, checkoutDir,
                   fetchLog, agentDirs, agentLog>>

\* const { owner, repo, prNumber } = parsePRUrl(prUrl)
ParseStep ==
    /\ pc = "start"
    /\ parsed' = parsePRUrl(url)
    /\ IF parsed'.ok
       THEN pc' = "checkout" /\ NoCatch
       ELSE CatchExit(parsed'.error)
    /\ UNCHANGED <<url, git, attempts, dryRun, pr, branch, head, checkouts, fetches, comments,
                   idx, displayed, invoked, inflight, status, outcomes, doneMsg,
                   directory, dirty, pushes, checkoutDir, fetchLog, agentDirs,
                   agentLog>>

\* CheckoutStep without the dry-run guard
CheckoutStep_IgnoresDryRun ==
    /\ pc = "checkout"
    /\ \E outcome \in CheckoutOutcomes(dirty) :
        /\ checkouts' = checkouts + 1
        /\ checkoutDir' = repoDir
        /\ outcome = checkoutPRBranch(dirty, git).outcome
        /\ attempts' = checkoutPRBranch(dirty, git).attempts
        /\ IF outcome = "ok"
           THEN /\ branch' = "pr"
                /\ head' = 1
                /\ pc' = "fetch"
                /\ NoCatch
           ELSE /\ CatchExit(outcome)
                /\ UNCHANGED <<branch, head>>
    /\ UNCHANGED <<url, git, dryRun, pr, parsed, fetches, comments, idx, displayed,
                   invoked, inflight, status, outcomes, doneMsg, directory,
                   dirty, pushes, fetchLog, agentDirs, agentLog>>

\* CheckoutStep going on, on the current branch, when the checkout failed
CheckoutStep_FallsBack ==
    /\ pc = "checkout"
    /\ IF dryRun
       THEN /\ pc' = "fetch"
            /\ NoCatch
            /\ UNCHANGED <<branch, head, checkouts, checkoutDir, attempts>>
       ELSE \E outcome \in CheckoutOutcomes(dirty) :
            /\ checkouts' = checkouts + 1
            /\ checkoutDir' = repoDir
            /\ outcome = checkoutPRBranch(dirty, git).outcome
            /\ attempts' = checkoutPRBranch(dirty, git).attempts
            /\ IF outcome = "ok"
               THEN /\ branch' = "pr"
                    /\ head' = 1
                    /\ pc' = "fetch"
                    /\ NoCatch
               ELSE /\ pc' = "fetch"
                    /\ NoCatch
                    /\ UNCHANGED <<branch, head>>
    /\ UNCHANGED <<url, git, dryRun, pr, parsed, fetches, comments, idx, displayed,
                   invoked, inflight, status, outcomes, doneMsg, directory,
                   dirty, pushes, fetchLog, agentDirs, agentLog>>

\* if (!options.dryRun) { await checkoutPRBranch(prNumber, repoDir) }
CheckoutStep ==
    /\ pc = "checkout"
    /\ IF dryRun
       THEN /\ pc' = "fetch"
            /\ NoCatch
            /\ UNCHANGED <<branch, head, checkouts, checkoutDir, attempts>>
       ELSE \E outcome \in CheckoutOutcomes(dirty) :
            /\ checkouts' = checkouts + 1
            /\ checkoutDir' = repoDir
            /\ outcome = checkoutPRBranch(dirty, git).outcome
            /\ attempts' = checkoutPRBranch(dirty, git).attempts
            /\ IF outcome = "ok"
               THEN /\ branch' = "pr"
                    /\ head' = 1
                    /\ pc' = "fetch"
                    /\ NoCatch
               ELSE /\ CatchExit(outcome)
                    /\ UNCHANGED <<branch, head>>
    /\ UNCHANGED <<url, git, dryRun, pr, parsed, fetches, comments, idx, displayed,
                   invoked, inflight, status, outcomes, doneMsg, directory,
                   dirty, pushes, fetchLog, agentDirs, agentLog>>

\* FetchStep with the fetch error swallowed: the run goes on with the
\* categories that were retrieved
FetchStep_SwallowsError ==
    /\ pc = "fetch"
    /\ fetches' = fetches + 1
    /\ \E outcome \in FetchOutcomes :
        /\ fetchLog' = outcome
        /\ comments' =
            (IF outcome[Discussion] = "ok" THEN pr.discussion ELSE <<>>)
            \o (IF outcome[ReviewSummary] = "ok"
                THEN SelectSeq(pr.reviews, HasBody) ELSE <<>>)
            \o (IF outcome[Inline] = "ok" THEN pr.inline ELSE <<>>)
        /\ status' = [i \in 1..Len(comments') |-> "Pending"]
        /\ idx' = 1
        /\ pc' = "loop"
        /\ NoCatch
    /\ UNCHANGED <<url, git, attempts, dryRun, pr, parsed, branch, head, checkouts, displayed,
                   invoked, inflight, outcomes, doneMsg, directory, dirty,
                   pushes, checkoutDir, agentDirs, agentLog>>

\* FetchStep started without waiting for the checkout
FetchStep_BeforeCheckout ==
    /\ pc \in {"checkout", "fetch"}
    /\ fetches' = fetches + 1
    /\ \E outcome \in FetchOutcomes :
        /\ fetchLog' = outcome
        /\ IF fetchThrows(outcome)
           THEN /\ CatchExit("FetchError")
                /\ UNCHANGED <<comments, status, idx>>
           ELSE /\ comments' = fetchPRComments(pr)
                /\ status' = [i \in 1..Len(comments') |-> "Pending"]
                /\ idx' = 1
                /\ pc' = "loop"
                /\ NoCatch
    /\ UNCHANGED <<url, git, attempts, dryRun, pr, parsed, branch, head, checkouts, displayed,
                   invoked, inflight, outcomes, doneMsg, directory, dirty,
                   pushes, checkoutDir, agentDirs, agentLog>>

\* const comments = await fetchPRComments(owner, repo, prNumber)
FetchStep ==
    /\ pc = "fetch"
    /\ fetches' = fetches + 1
    /\ \E outcome \in FetchOutcomes :
        /\ fetchLog' = outcome
        /\ IF fetchThrows(outcome)
           THEN /\ CatchExit("FetchError")
                /\ UNCHANGED <<comments, status, idx>>
           ELSE /\ comments' = fetchPRComments(pr)
                /\ status' = [i \in 1..Len(comments') |-> "Pending"]
                /\ idx' = 1
                /\ pc' = "loop"
                /\ NoCatch
    /\ UNCHANGED <<url, git, attempts, dryRun, pr, parsed, branch, head, checkouts, displayed,
                   invoked, inflight, outcomes, doneMsg, directory, dirty,
                   pushes, checkoutDir, agentDirs, agentLog>>

\* LoopStep calling processCommentWithClaude without awaiting it: the loop
\* moves on while the invocation is still running
LoopStep_NoAwait ==
    /\ pc = "loop"
    /\ idx <= Len(comments)
    /\ displayed' = Append(displayed, comments[idx].id)
    /\ idx' = idx + 1
    /\ IF dryRun
       THEN UNCHANGED <<invoked, inflight, status, agentDirs>>
       ELSE /\ invoked' = Append(invoked, comments[idx].id)
            /\ agentDirs' = Append(agentDirs, AgentDirectory)
            /\ inflight' = inflight \cup {idx}
            /\ status' = [status EXCEPT ![idx] = "Invoking"]
    /\ UNCHANGED <<url, git, attempts, dryRun, pr, pc, parsed, branch, head, checkouts, fetches,
                   comments, outcomes, doneMsg, exitCode, directory, dirty,
                   pushes, error, checkoutDir, fetchLog, agentLog>>

\* LoopStep walking the array from its end
LoopStep_Reversed ==
    /\ pc = "loop"
    /\ idx <= Len(comments)
    /\ LET at == Len(comments) + 1 - idx
       IN  /\ displayed' = Append(displayed, comments[at].id)
           /\ IF dryRun
              THEN /\ idx' = idx + 1
                   /\ UNCHANGED <<pc, invoked, inflight, status, agentDirs>>
              ELSE /\ invoked' = Append(invoked, comments[at].id)
                   /\ agentDirs' = Append(agentDirs, AgentDirectory)
                   /\ inflight' = inflight \cup {idx}
                   /\ status' = [status EXCEPT ![idx] = "Invoking"]
                   /\ pc' = "awaiting"
                   /\ UNCHANGED idx
    /\ UNCHANGED <<url, git, attempts, dryRun, pr, parsed, branch, head, checkouts, fetches,
                   comments, outcomes, doneMsg, exitCode, directory, dirty,
                   pushes, error, checkoutDir, fetchLog, agentLog>>

\* LoopStep printing a comment only when it is going to be processed
LoopStep_DryRunSilent ==
    /\ pc = "loop"
    /\ idx <= Len(comments)
    /\ displayed' = IF dryRun THEN displayed
                     ELSE Append(displayed, comments[idx].id)
    /\ IF dryRun
       THEN /\ idx' = idx + 1
            /\ UNCHANGED <<pc, invoked, inflight, status, agentDirs>>
       ELSE /\ invoked' = Append(invoked, comments[idx].id)
            /\ agentDirs' = Append(agentDirs, AgentDirectory)
            /\ inflight' = inflight \cup {idx}
            /\ status' = [status EXCEPT ![idx] = "Invoking"]
            /\ pc' = "awaiting"
            /\ UNCHANGED idx
    /\ UNCHANGED <<url, git, attempts, dryRun, pr, parsed, branch, head, checkouts, fetches,
                   comments, outcomes, doneMsg, exitCode, directory, dirty,
                   pushes, error, checkoutDir, fetchLog, agentLog>>

\* the head of one loop iteration: print the comment and, unless dry-run,
\* call processCommentWithClaude(comment)
LoopStep ==
    /\ pc = "loop"
    /\ idx <= Len(comments)
    /\ displayed' = Append(displayed, comments[idx].id)
    /\ IF dryRun
       THEN /\ idx' = idx + 1
            /\ UNCHANGED <<pc, invoked, inflight, status, agentDirs>>
       ELSE /\ invoked' = Append(invoked, comments[idx].id)
            /\ agentDirs' = Append(agentDirs, AgentDirectory)
            /\ inflight' = inflight \cup {idx}
            /\ status' = [status EXCEPT ![idx] = "Invoking"]
            /\ pc' = "awaiting"
            /\ UNCHANGED idx
    /\ UNCHANGED <<url, git, attempts, dryRun, pr, parsed, branch, head, checkouts, fetches,
                   comments, outcomes, doneMsg, exitCode, directory, dirty,
                   pushes, error, checkoutDir, fetchLog, agentLog>>

\* AwaitStep leaving the loop after the first comment that needed no change
AwaitStep_StopsAtSkipped ==
    /\ pc = "awaiting"
    /\ \E agent \in AgentBehaviours :
        LET headAfter == IF agent.committed THEN head + 1 ELSE head
            result == processCommentWithClaude(comments[idx], agent.marker,
                                               head, headAfter)
        IN  /\ head' = headAfter
            /\ inflight' = inflight \ {idx}
            /\ agentLog' = Append(agentLog, [marker |-> agent.marker,
                                             headBefore |-> head,
                                             headAfter |-> headAfter])
            /\ IF result.threw
               THEN /\ status' = [status EXCEPT ![idx] = "Failed"]
                    /\ CatchExit(result.error)
                    /\ UNCHANGED <<idx, outcomes>>
               ELSE /\ outcomes' = Append(outcomes, result)
                    /\ status' = [status EXCEPT ![idx] =
                                    IF result.fixed THEN "Committed" ELSE "Skipped"]
                    /\ idx' = IF result.fixed THEN idx + 1 ELSE Len(comments) + 1
                    /\ pc' = "loop"
                    /\ NoCatch
    /\ UNCHANGED <<url, git, attempts, dryRun, pr, parsed, branch, checkouts, fetches,
                   comments, displayed, invoked, doneMsg, directory, dirty,
                   pushes, checkoutDir, fetchLog, agentDirs>>

\* AwaitStep handing a comment whose processing failed to the processor
\* again, as long as fewer invocations than comments have been made
AwaitStep_RetriesFailed ==
    /\ pc = "awaiting"
    /\ \E agent \in AgentBehaviours :
        LET headAfter == IF agent.committed THEN head + 1 ELSE head
            result == processCommentWithClaude(comments[idx], agent.marker,
                                               head, headAfter)
        IN  /\ head' = headAfter
            /\ inflight' = inflight \ {idx}
            /\ agentLog' = Append(agentLog, [marker |-> agent.marker,
                                             headBefore |-> head,
                                             headAfter |-> headAfter])
            /\ IF result.threw
               THEN /\ status' = [status EXCEPT ![idx] = "Failed"]
                    /\ IF Len(agentLog) < Len(comments)
                       THEN pc' = "loop" /\ NoCatch
                       ELSE CatchExit(result.error)
                    /\ UNCHANGED <<idx, outcomes>>
               ELSE /\ outcomes' = Append(outcomes, result)
                    /\ status' = [status EXCEPT ![idx] =
                                    IF result.fixed THEN "Committed" ELSE "Skipped"]
                    /\ idx' = idx + 1
                    /\ pc' = "loop"
                    /\ NoCatch
    /\ UNCHANGED <<url, git, attempts, dryRun, pr, parsed, branch, checkouts, fetches,
                   comments, displayed, invoked, doneMsg, directory, dirty,
                   pushes, checkoutDir, fetchLog, agentDirs>>

\* the awaited call settles: the result is printed and the loop goes on, or
\* the rejection reaches the catch block
AwaitStep ==
    /\ pc = "awaiting"
    /\ \E agent \in AgentBehaviours :
        LET headAfter == IF agent.committed THEN head + 1 ELSE head
            result == processCommentWithClaude(comments[idx], agent.marker,
                                               head, headAfter)
        IN  /\ head' = headAfter
            /\ inflight' = inflight \ {idx}
            /\ agentLog' = Append(agentLog, [marker |-> agent.marker,
                                             headBefore |-> head,
                                             headAfter |-> headAfter])
            /\ IF result.threw
               THEN /\ status' = [status EXCEPT ![idx] = "Failed"]
                    /\ CatchExit(result.error)
                    /\ UNCHANGED <<idx, outcomes>>
               ELSE /\ outcomes' = Append(outcomes, result)
                    /\ status' = [status EXCEPT ![idx] =
                                    IF result.fixed THEN "Committed" ELSE "Skipped"]
                    /\ idx' = idx + 1
                    /\ pc' = "loop"
                    /\ NoCatch
    /\ UNCHANGED <<url, git, attempts, dryRun, pr, parsed, branch, checkouts, fetches,
                   comments, displayed, invoked, doneMsg, directory, dirty,
                   pushes, checkoutDir, fetchLog, agentDirs>>

\* DoneStep with the loop ending one comment early
DoneStep_OffByOne ==
    /\ pc = "loop"
    /\ idx >= Len(comments)
    /\ doneMsg' = TRUE
    /\ pc' = "exited"
    /\ exitCode' = 0
    /\ UNCHANGED <<url, git, attempts, dryRun, pr, parsed, branch, head, checkouts, fetches,
                   comments, idx, displayed, invoked, inflight, status, outcomes,
                   directory, dirty, pushes, error, checkoutDir, fetchLog,
                   agentDirs, agentLog>>

\* DoneStep pushing the branch when the run made commits
DoneStep_Pushes ==
    /\ pc = "loop"
    /\ idx > Len(comments)
    /\ doneMsg' = TRUE
    /\ pc' = "exited"
    /\ exitCode' = 0
    /\ pushes' = IF outcomes /= <<>> THEN pushes + 1 ELSE pushes
    /\ UNCHANGED <<url, git, attempts, dryRun, pr, parsed, branch, head, checkouts, fetches,
                   comments, idx, displayed, invoked, inflight, status, outcomes,
                   directory, dirty, error, checkoutDir, fetchLog, agentDirs,
                   agentLog>>

\* console.log("Done! Review the commits and push when ready.")
DoneStep ==
    /\ pc = "loop"
    /\ idx > Len(comments)
    /\ doneMsg' = TRUE
    /\ pc' = "exited"
    /\ exitCode' = 0
    /\ UNCHANGED <<url, git, attempts, dryRun, pr, parsed, branch, head, checkouts, fetches,
                   comments, idx, displayed, invoked, inflight, status, outcomes,
                   directory, dirty, pushes, error, checkoutDir, fetchLog,
                   agentDirs, agentLog>>

Next ==
    \/ ParseStep
    \/ CheckoutStep
    \/ FetchStep
    \/ LoopStep
    \/ AwaitStep
    \/ DoneStep

Spec == Init /\ [][Next]_vars

\* the run with every awaited call settling and every continuation run; the
\* fairness of the parse step is stated on ParseReturns, whose steps within
\* Next are the steps of ParseStep
\* the ways parsePRUrl ends on the URLs of the runs
ParseOutcomes == {parsePRUrl(u) : u \in RunUrls}

\* the step that leaves the start of the run: parsePRUrl returns or throws
ParseReturns ==
    /\ pc = "start"
    /\ \E result \in ParseOutcomes :
        /\ parsed' = result
        /\ IF result.ok
           THEN pc' = "checkout" /\ NoCatch
           ELSE CatchExit(result.error)
    /\ UNCHANGED <<url, git, attempts, dryRun, pr, branch, head, checkouts, fetches, comments,
                   idx, displayed, invoked, inflight, status, outcomes, doneMsg,
                   directory, dirty, pushes, checkoutDir, fetchLog, agentDirs,
                   agentLog>>

LiveSpec ==
    /\ Init /\ [][Next]_vars
    /\ WF_vars(ParseReturns)
    /\ WF_vars(CheckoutStep \/ FetchStep \/ LoopStep \/ AwaitStep \/ DoneStep)

\* the parser alone, on every URL of ParseUrls
ParseInit ==
    /\ url \in ParseUrls
    /\ RunInit
    /\ dryRun = TRUE
    /\ directory = ""
    /\ dirty = FALSE
    /\ git = [s \in {Plain, Track, FetchThenCheckout} |-> TRUE]
    /\ pr = [discussion |-> <<>>, reviews |-> <<>>, inline |-> <<>>]

ParseNext == ParseStep

ParseSpec == ParseInit /\ [][ParseNext]_vars

\* the fetch alone, from the point of the action where it is called, on pull
\* requests with up to MaxFetchedPerKind comments of each category
FetchInit ==
    /\ url = HTTPS \o COLONSLASHES \o GITHUBCOM
                \o JoinPath(<<OWNER, REPO, PULL, <<"1", "2">>>>)
    /\ parsed = parsePRUrl(url)
    /\ dryRun \in BOOLEAN
    /\ directory \in Directories
    /\ dirty = FALSE
    /\ pr \in SnapshotsUpTo(MaxFetchedPerKind)
    /\ pc = "fetch"
    /\ branch = IF dryRun THEN "original" ELSE "pr"
    /\ head = IF dryRun THEN 0 ELSE 1
    /\ checkouts = IF dryRun THEN 0 ELSE 1
    /\ checkoutDir = IF dryRun THEN "" ELSE repoDir
    /\ git = [s \in {Plain, Track, FetchThenCheckout} |-> TRUE]
    /\ attempts = IF dryRun THEN <<>> ELSE <<Plain>>
    /\ fetches = 0
    /\ comments = <<>>
    /\ idx = 0
    /\ displayed = <<>>
    /\ invoked = <<>>
    /\ inflight = {}
    /\ status = <<>>
    /\ outcomes = <<>>
    /\ doneMsg = FALSE
    /\ exitCode = 0
    /\ pushes = 0
    /\ error = ""
    /\ fetchLog = <<>>
    /\ agentDirs = <<>>
    /\ agentLog = <<>>

FetchNext == FetchStep

FetchSpec == FetchInit /\ [][FetchNext]_vars

\* the run up to the end of the checkout, on every repository of GitRepos
CheckoutInit ==
    /\ url = HTTPS \o COLONSLASHES \o GITHUBCOM
                \o JoinPath(<<OWNER, REPO, PULL, <<"1", "2">>>>)
    /\ git \in GitRepos
    /\ directory \in Directories
    /\ dirty \in BOOLEAN
    /\ RunInit
    /\ pc = "start"

CheckoutNext == ParseStep \/ CheckoutStep

CheckoutSpec == CheckoutInit /\ [][CheckoutNext]_vars

-----------------------------------------------------------------------------
(* Properties of a run *)

\* how often id occurs in a sequence of ids
Occurrences(ids, id) == Cardinality({k \in 1..Len(ids) : ids[k] = id})

\* C1: failure isolation.  When a non-dry run has ended and the processing
\* of some comment failed, every fetched comment has nevertheless been
\* handed to the processor.
C1_FailureIsolation ==
    (pc = "exited" /\ ~dryRun /\ \E i \in 1..Len(status) : status[i] = "Failed")
        => Len(invoked) = Len(comments)

\* C2: in a dry run the agent is never invoked, nothing is checked out, and
\* the head commit and the branch stay what they were at the start.
C2_DryRunTouchesNothing ==
    dryRun =>
        /\ invoked = <<>>
        /\ inflight = {}
        /\ outcomes = <<>>
        /\ checkouts = 0
        /\ head = 0
        /\ branch = "original"

C2_Witness ==
    /\ dryRun
    /\ doneMsg
    /\ Len(displayed) >= 2

\* C3: an outcome has fixed = true exactly when it carries a commit id.
C3_FixedIffCommit ==
    \A k \in 1..Len(outcomes) :
        outcomes[k].fixed <=> ("commitSha" \in DOMAIN outcomes[k])

C3_Witness ==
    /\ Len(outcomes) >= 2
    /\ outcomes[1].fixed
    /\ ~outcomes[2].fixed

\* C4: at most one agent invocation is in flight, and a comment is being
\* invoked only when every earlier comment is in a terminal state.
C4_OneInFlight ==
    /\ Cardinality(inflight) <= 1
    /\ \A i \in 1..Len(status) :
        (i \in inflight \/ status[i] = "Invoking")
            => \A j \in 1..(i - 1) : status[j] \in Terminal

C4_Witness ==
    /\ inflight = {2}
    /\ status[1] \in Terminal

\* C5: no comment is handed to the agent twice, and when a non-dry run
\* reaches its completion message every fetched comment was handed to it
\* exactly once.
C5_ExactlyOnce ==
    /\ \A i \in 1..Len(comments) : Occurrences(invoked, comments[i].id) <= 1
    /\ (doneMsg /\ ~dryRun)
        => \A i \in 1..Len(comments) : Occurrences(invoked, comments[i].id) = 1

C5_Witness ==
    /\ doneMsg
    /\ ~dryRun
    /\ Len(comments) >= 2

\* C6: the comments handed to the agent are a prefix of the fetched
\* sequence, the k-th invocation being for the k-th fetched comment.
C6_FetchOrder ==
    /\ Len(invoked) <= Len(comments)
    /\ \A k \in 1..Len(invoked) : invoked[k] = comments[k].id

C6_Witness ==
    /\ Len(invoked) >= 2
    /\ Len(comments) >= 3

\* C7: when the URL does not parse, the run exits with a non-zero code
\* having done no checkout, no fetch and no agent invocation.
C7_BadUrlNoSideEffect ==
    ~parsePRUrl(url).ok =>
        /\ checkouts = 0
        /\ fetches = 0
        /\ invoked = <<>>
        /\ head = 0
        /\ branch = "original"
        /\ pc \in {"start", "exited"}
        /\ (pc = "exited" => exitCode /= 0)

C7_Witness ==
    /\ url = ExampleComUrl
    /\ pc = "exited"
    /\ exitCode = 1

-----------------------------------------------------------------------------
(* Properties of parsePRUrl, checked under ParseSpec *)

HasSuffix(s, lit) ==
    /\ Len(s) >= Len(lit)
    /\ SubSeq(s, Len(s) - Len(lit) + 1, Len(s)) = lit

NonEmptyWithoutSlash(s) ==
    /\ s /= EMPTY
    /\ \A i \in 1..Len(s) : s[i] /= "/"

\* one or more decimal digits, not all of them zero
PositiveNumberText(s) ==
    /\ s /= EMPTY
    /\ \A i \in 1..Len(s) : s[i] \in DigitChars
    /\ \E i \in 1..Len(s) : s[i] /= "0"

\* the accepted grammar, scheme://[www.]host/owner/repo/pull/<digits>[/],
\* with scheme http or https and host github.com, as a decomposition of u
MatchesGrammar(u) ==
    \E s \in {HTTP, HTTPS}, w \in {EMPTY, WWW}, t \in {EMPTY, SLASH} :
        LET pre == s \o COLONSLASHES \o w \o GITHUBCOM \o SLASH
            mid == SubSeq(u, Len(pre) + 1, Len(u) - Len(t))
            sep == SLASH \o PULL \o SLASH
        IN  /\ Len(u) >= Len(pre) + Len(t)
            /\ HasPrefix(u, pre)
            /\ HasSuffix(u, t)
            /\ \E a, b \in 1..Len(mid) :
                /\ a < b
                /\ mid[a] = "/"
                /\ b + Len(sep) - 1 <= Len(mid)
                /\ SubSeq(mid, b, b + Len(sep) - 1) = sep
                /\ NonEmptyWithoutSlash(SubSeq(mid, 1, a - 1))
                /\ NonEmptyWithoutSlash(SubSeq(mid, a + 1, b - 1))
                /\ PositiveNumberText(SubSeq(mid, b + Len(sep), Len(mid)))

RECURSIVE DecimalText(_)
DecimalText(n) ==
    IF n < 10 THEN <<DigitChar(n)>>
    ELSE DecimalText(n \div 10) \o <<DigitChar(n % 10)>>

\* the PR URL of a parsed reference
format(ref) ==
    HTTPS \o COLONSLASHES \o GITHUBCOM
        \o JoinPath(<<ref.owner, ref.repo, PULL, DecimalText(ref.prNumber)>>)

\* position of the first "://" in u
SchemeEnd(u) ==
    CHOOSE i \in 1..Len(u) :
        /\ SubSeq(u, i, i + 2) = COLONSLASHES
        /\ \A j \in 1..(i - 1) : SubSeq(u, j, j + 2) /= COLONSLASHES

WithoutWww(s) == IF HasPrefix(s, WWW) THEN Drop(s, Len(WWW)) ELSE s

WithoutTrailingSlash(s) ==
    IF HasSuffix(s, SLASH) THEN SubSeq(s, 1, Len(s) - 1) ELSE s

\* u with its scheme made https, a leading www. removed and a trailing slash
\* removed
normalizedForm(u) ==
    HTTPS \o COLONSLASHES
        \o WithoutTrailingSlash(WithoutWww(Drop(u, SchemeEnd(u) + 2)))

\* position of the last "/" in s
LastSlash(s) ==
    CHOOSE i \in 1..Len(s) :
        /\ s[i] = "/"
        /\ \A j \in (i + 1)..Len(s) : s[j] /= "/"

RECURSIVE WithoutLeadingZeros(_)
WithoutLeadingZeros(s) ==
    IF Len(s) > 1 /\ s[1] = "0" THEN WithoutLeadingZeros(Tail(s)) ELSE s

\* normalizedForm with the PR number also written without leading zeros
canonicalForm(u) ==
    LET n == normalizedForm(u)
        k == LastSlash(n)
    IN  SubSeq(n, 1, k) \o WithoutLeadingZeros(Drop(n, k))

\* the path segments of a normalized URL, after "https://host"
RECURSIVE Segments(_)
Segments(s) ==
    IF s = EMPTY THEN <<>>
    ELSE LET rest == Tail(s)
             n == RunLength(rest, NotSlash)
         IN  <<SubSeq(rest, 1, n)>> \o Segments(Drop(rest, n))

PathSegments(u) ==
    Segments(Drop(normalizedForm(u), Len(HTTPS \o COLONSLASHES \o GITHUBCOM)))

\* C9 as stated: formatting the parsed reference gives the URL with only its
\* scheme, www. and trailing slash normalized.
C9_RoundTripAsStated ==
    (pc /= "start" /\ parsed.ok) => format(parsed) = normalizedForm(url)

\* C9, amended: formatting the parsed reference gives the normalized URL
\* with the PR number written without leading zeros, and the reference holds
\* the owner, the repository and the value of the number written in the URL.
C9_RoundTrip ==
    (pc /= "start" /\ parsed.ok) =>
        /\ format(parsed) = canonicalForm(url)
        /\ parsed.owner = PathSegments(url)[1]
        /\ parsed.repo = PathSegments(url)[2]
        /\ DecimalText(parsed.prNumber) = WithoutLeadingZeros(PathSegments(url)[4])

C9_Witness ==
    /\ pc /= "start"
    /\ parsed.ok
    /\ HasPrefix(url, HTTP \o COLONSLASHES \o WWW)
    /\ HasSuffix(url, SLASH)
    /\ normalizedForm(url) /= canonicalForm(url)

-----------------------------------------------------------------------------
(* Exit codes, fatal errors and the counts of a run *)

\* the fetch was called and returned the comments
fetchReturned == fetches > 0 /\ ~fetchThrows(fetchLog)

\* the checkout was called and threw
checkoutThrew == checkouts > 0 /\ branch /= "pr"

\* C11: a run that got as far as processing comments exits with code 0,
\* also when it is a dry run or a comment's processing failed, and a run
\* stopped by a URL parse error or a checkout failure exits with a non-zero
\* code.
C11_ExitCodes ==
    pc = "exited" =>
        /\ fetchReturned => exitCode = 0
        /\ (~parsed.ok \/ checkoutThrew) => exitCode /= 0

\* C12: when the fetch of any one category fails, no comment sequence is
\* returned, none is displayed or handed to the agent, and the run ends
\* with a non-zero exit code.
C12_FetchFailureIsFatal ==
    (fetches > 0 /\ fetchThrows(fetchLog)) =>
        /\ comments = <<>>
        /\ displayed = <<>>
        /\ invoked = <<>>
        /\ pc = "exited"
        /\ exitCode /= 0
        /\ error = "FetchError"

C12_Witness ==
    /\ fetches = 1
    /\ fetchLog[Discussion] = "ok"
    /\ fetchLog[ReviewSummary] = "ok"
    /\ fetchLog[Inline] = "fail"
    /\ pr.discussion /= <<>>
    /\ pc = "exited"

\* C13: in a run on a working directory with uncommitted changes the fetch
\* never starts, the agent is never invoked, and the run ends with the
\* dirty-working-directory error and a non-zero exit code.
C13_DirtyFailsBeforeFetch ==
    (dirty /\ parsePRUrl(url).ok) =>
        /\ fetches = 0
        /\ invoked = <<>>
        /\ pc = "exited" =>
            /\ error = "DirtyWorkingDirectoryError"
            /\ exitCode /= 0

\* C14: a comment is Committed only when the head after its invocation
\* differs from the head before, and a changes-made marker with an
\* unchanged head makes the comment Failed with CommitNotFoundError.
C14_CommitConsistency ==
    \A i \in 1..Len(agentLog) :
        /\ status[i] = "Committed" =>
            agentLog[i].headAfter /= agentLog[i].headBefore
        /\ (/\ agentLog[i].marker = "CHANGES_MADE"
            /\ agentLog[i].headAfter = agentLog[i].headBefore) =>
                /\ status[i] = "Failed"
                /\ error = "CommitNotFoundError"

C14_Witness ==
    \E i \in 1..Len(agentLog) :
        /\ i >= 2
        /\ agentLog[i].marker = "CHANGES_MADE"
        /\ agentLog[i].headAfter = agentLog[i].headBefore
        /\ status[i] = "Failed"
        /\ status[1] = "Committed"

\* the counts of the results the loop reported
changed == Cardinality({i \in 1..Len(outcomes) : outcomes[i].fixed})

unchanged == Cardinality({i \in 1..Len(outcomes) : ~outcomes[i].fixed})

errored == Cardinality({i \in 1..Len(status) : status[i] = "Failed"})

\* the commits added to the branch since it was checked out
newCommits == head - 1

C16_NeverPushes == pushes = 0

C16_Witness ==
    /\ doneMsg
    /\ newCommits > 0
    /\ pushes = 0

-----------------------------------------------------------------------------
(* The fetched sequence *)

\* the comments of one category as the hosting service lists them
SourceOf(p, k) ==
    CASE k = Discussion -> p.discussion
      [] k = ReviewSummary -> p.reviews
      [] k = Inline -> p.inline

\* c comes before d in the source list of their common category
BeforeInSource(p, c, d) ==
    /\ c.kind = d.kind
    /\ \E a, b \in 1..Len(SourceOf(p, c.kind)) :
        /\ a < b
        /\ SourceOf(p, c.kind)[a] = c
        /\ SourceOf(p, c.kind)[b] = d

\* C17: the fetched sequence has the discussion comments first, then the
\* review summaries, then the inline comments, each category in the order
\* of its source and holding each source comment (review summaries with an
\* empty body left out) exactly once; the snapshot therefore determines the
\* sequence.
C17_FetchOrdering ==
    pc = "loop" =>
        /\ \A i, j \in 1..Len(comments) :
            i < j => \/ comments[i].kind < comments[j].kind
                     \/ BeforeInSource(pr, comments[i], comments[j])
        /\ \A i \in 1..Len(comments) :
            \E a \in 1..Len(SourceOf(pr, comments[i].kind)) :
                SourceOf(pr, comments[i].kind)[a] = comments[i]
        /\ \A k \in Kinds : \A a \in 1..Len(SourceOf(pr, k)) :
            \/ k = ReviewSummary /\ SourceOf(pr, k)[a].body = ""
            \/ \E i \in 1..Len(comments) : comments[i] = SourceOf(pr, k)[a]

C17_Witness ==
    /\ pc = "loop"
    /\ Len(pr.discussion) = 2
    /\ Len(pr.inline) = 2
    /\ Len(pr.reviews) = 2
    /\ Len(comments) = 6

\* C18: no review summary with an empty body is in the fetched sequence, and
\* none is handed to the agent.
C18_NoEmptyReviewSummary ==
    /\ \A i \in 1..Len(comments) :
        comments[i].kind = ReviewSummary => comments[i].body /= ""
    /\ \A k \in 1..Len(invoked) : \A a \in 1..Len(pr.reviews) :
        pr.reviews[a].id = invoked[k] => pr.reviews[a].body /= ""

C18_Witness ==
    /\ doneMsg
    /\ ~dryRun
    /\ \E a \in 1..Len(pr.reviews) : pr.reviews[a].body = ""
    /\ Len(invoked) = 2

-----------------------------------------------------------------------------
(* The order of the steps and the directory they work in *)

\* C19: in a non-dry run the fetch starts only after the checkout has
\* succeeded, and the agent is invoked only after the fetch has returned the
\* complete sequence.
C19_CheckoutFetchProcess ==
    ~dryRun =>
        /\ fetches > 0 => (checkouts = 1 /\ branch = "pr")
        /\ invoked /= <<>> => (fetchReturned /\ comments = fetchPRComments(pr))

C19_Witness ==
    /\ ~dryRun
    /\ checkouts = 1
    /\ fetches = 1
    /\ Len(invoked) = 1
    /\ pc = "awaiting"

\* C20: every agent invocation works in the target directory of the run,
\* the one the checkout was performed in.
C20_AgentInTargetDirectory ==
    \A k \in 1..Len(agentDirs) :
        /\ agentDirs[k] = repoDir
        /\ agentDirs[k] = checkoutDir

-----------------------------------------------------------------------------
(* The life of one comment *)

\* the moves a comment's status may make
StatusMove(from, to) ==
    \/ from = "Pending" /\ to = "Invoking"
    \/ from = "Invoking" /\ to \in Terminal

\* C21: a comment's status starts as Pending when the comments are fetched
\* and afterwards moves only from Pending to Invoking and from Invoking
\* to one of Committed, Skipped and Failed; a terminal status never changes.
C21_StateMachine ==
    [][IF status = <<>>
       THEN \A i \in 1..Len(status') : status'[i] = "Pending"
       ELSE /\ Len(status') = Len(status)
            /\ \A i \in 1..Len(status) :
                status'[i] /= status[i] => StatusMove(status[i], status'[i])]_vars

C21_Witness ==
    /\ pc = "exited"
    /\ status = <<"Committed", "Skipped", "Failed">>

\* C22: a comment is Skipped only when the head after its invocation equals
\* the head before, and a no-changes marker with a changed head gives no
\* result for the comment: it is Failed.
C22_SkippedOnlyIfHeadUnchanged ==
    \A i \in 1..Len(agentLog) :
        /\ status[i] = "Skipped" =>
            agentLog[i].headAfter = agentLog[i].headBefore
        /\ (/\ agentLog[i].marker = "NO_CHANGES_NEEDED"
            /\ agentLog[i].headAfter /= agentLog[i].headBefore) =>
                /\ status[i] = "Failed"
                /\ \A k \in 1..Len(outcomes) :
                    outcomes[k].commentId /= comments[i].id

C22_Witness ==
    \E i \in 1..Len(agentLog) :
        /\ i >= 2
        /\ agentLog[i].marker = "NO_CHANGES_NEEDED"
        /\ agentLog[i].headAfter /= agentLog[i].headBefore
        /\ status[i] = "Failed"
        /\ status[1] = "Skipped"

\* C23: after a failed checkout the run has exited with a non-zero code,
\* still on the original branch, without a fetch or an agent invocation.
C23_CheckoutFailureIsFatal ==
    checkoutThrew =>
        /\ pc = "exited"
        /\ exitCode /= 0
        /\ branch = "original"
        /\ fetches = 0
        /\ comments = <<>>
        /\ invoked = <<>>

C23_Witness ==
    /\ checkoutThrew
    /\ error = "CheckoutError"
    /\ pc = "exited"

\* C24: a dry run does no checkout and no agent invocation, fetches the
\* comments once the URL has parsed, and displays the fetched comments in
\* fetch order, all of them by the time it ends.
C24_DryRunEnumerates ==
    dryRun =>
        /\ checkouts = 0
        /\ invoked = <<>>
        /\ agentLog = <<>>
        /\ Len(displayed) <= Len(comments)
        /\ \A k \in 1..Len(displayed) : displayed[k] = comments[k].id
        /\ pc = "loop" => Len(displayed) = idx - 1
        /\ (pc = "exited" /\ parsed.ok) => fetches = 1
        /\ (pc = "exited" /\ fetchReturned) =>
            /\ doneMsg
            /\ Len(displayed) = Len(comments)

C24_Witness ==
    /\ dryRun
    /\ doneMsg
    /\ Len(displayed) = 3

\* C27: a step is taken only while no error has been raised; a step that
\* raises ends the run with exit code 1 and without the completion message;
\* the completion message comes with exit code 0 and no error.
C27_DoneXorError ==
    [][/\ error = ""
       /\ error' /= "" => (pc' = "exited" /\ exitCode' = 1 /\ ~doneMsg')
       /\ doneMsg' => (error' = "" /\ exitCode' = 0)]_vars

C27_Witness ==
    /\ error /= ""
    /\ pc = "exited"
    /\ exitCode = 1
    /\ outcomes /= <<>>

-----------------------------------------------------------------------------
(* Termination *)

\* every fetched comment has a terminal status
AllSettled == \A i \in 1..Len(status) : status[i] \in Terminal

\* the run reaches its exit
Terminates == <>(pc = "exited")

\* C26: when every awaited call settles, the run reaches its exit, and a
\* non-dry run whose checkout and fetch succeeded brings every fetched
\* comment to a terminal status.
C26_TerminatesAndSettles ==
    /\ Terminates
    /\ (~dryRun /\ fetchReturned) ~> AllSettled

-----------------------------------------------------------------------------
(* The checkout *)

\* C25: checkoutPRBranch tries plain checkout, then checkout-and-track, then
\* fetch-then-checkout, in this order; a way is tried only after every
\* earlier one has failed, the checkout succeeds by the last way tried, and
\* it fails, with CheckoutError, only after all three have failed.
C25_StrategyOrder ==
    (checkouts > 0 /\ ~dirty) =>
        /\ attempts /= <<>>
        /\ Len(attempts) <= Len(Strategies)
        /\ \A k \in 1..Len(attempts) : attempts[k] = Strategies[k]
        /\ \A k \in 1..(Len(attempts) - 1) : ~git[attempts[k]]
        /\ IF branch = "pr"
           THEN /\ git[attempts[Len(attempts)]]
                /\ error = ""
           ELSE /\ attempts = Strategies
                /\ \A k \in 1..Len(attempts) : ~git[attempts[k]]
                /\ error = "CheckoutError"

C25_Witness ==
    /\ checkouts = 1
    /\ attempts = Strategies
    /\ git[FetchThenCheckout]
    /\ branch = "pr"

====
